---- MODULE Spec2Model ----
(***************************************************************************)
(* AEMMT: a decomposition-based evolutionary solver for the 3-objective    *)
(* 0/1 knapsack (src/main.cpp, class AMMTSolver).                          *)
(*                                                                         *)
(* Conventions of the model                                                *)
(*  - C++ vectors are TLA+ sequences, so item/gene/slot number k of the    *)
(*    code is index k+1 here.  The loop variables g, obj, i keep the       *)
(*    code's 0-based values.                                               *)
(*  - weights and profits are exact integers instead of doubles, and the   *)
(*    capacity total * 0.5 is kept as the fraction                         *)
(*    total * CAPACITY_RATIO_NUM / CAPACITY_RATIO_DEN; comparisons with it *)
(*    are cross-multiplied.  Rounding of double arithmetic is not          *)
(*    modelled.                                                            *)
(*  - every draw from the mt19937 stream is a nondeterministic choice.     *)
(***************************************************************************)
EXTENDS Integers, Sequences, FiniteSets

VARIABLES
    items,             \* vector<Item> items (weight, profits), fixed by the constructor
    pop_size,          \* int pop_size
    selection_method,  \* int selection_method
    generations,       \* argument of run()
    population,        \* vector<Individual> population
    new_pop,           \* vector<Individual> new_pop of the generation in progress
    pc,                \* position of the run / of the operator under test
    g,                 \* generation counter of run()
    obj,               \* objective loop counter of run()
    i,                 \* pair loop counter of run()
    sel_obj,           \* objective index handed to the selection operator by the last pair
    arg,               \* the Individual as handed to evaluate_and_repair
    ind,               \* Individual& argument of evaluate_and_repair, updated in place
    p1, p2,            \* const Individual& arguments of crossover
    children,          \* pair<Individual, Individual> returned by crossover
    point              \* cut point drawn by crossover

vars == <<items, pop_size, selection_method, generations, population, new_pop,
          pc, g, obj, i, sel_obj, arg, ind, p1, p2, children, point>>

(***************************************************************************)
(* Program constants                                                       *)
(***************************************************************************)
NUM_OBJECTIVES == 3
SUBPOP_COUNT == 3
CAPACITY_RATIO_NUM == 1
CAPACITY_RATIO_DEN == 2

(***************************************************************************)
(* Bounds of the model                                                     *)
(***************************************************************************)
MaxItems == 3      \* items of an instance handed to the operators
MaxWeight == 2     \* item weights of those instances are 1..MaxWeight
MaxPopSize == 7    \* pop_size of a run is 0..MaxPopSize
MaxGenerations == 2 \* run(generations) is called with 0 or MaxGenerations

Objectives == 1..NUM_OBJECTIVES

(***************************************************************************)
(* Data model                                                              *)
(***************************************************************************)
Item(w, ps) == [weight |-> w, profits |-> ps]

num_items == Len(items)

Genes == 1..num_items

\* Individual::Individual(int num_items = 0)
Individual(n) ==
    [chromosome   |-> [j \in 1..n |-> FALSE],
     fitness      |-> IF n > 0 THEN [o \in Objectives |-> 0] ELSE <<>>,
     total_weight |-> 0,
     valid        |-> FALSE]

RECURSIVE SumOver(_, _)
\* sum of f[k] over the k in S
SumOver(f, S) ==
    IF S = {} THEN 0
    ELSE LET k == CHOOSE x \in S : TRUE IN f[k] + SumOver(f, S \ {k})

\* total_weight_all of generate_instance
total_weight_all == SumOver([k \in Genes |-> items[k].weight], Genes)

\* w > max_capacity, with max_capacity = total_weight_all * CAPACITY_RATIO
ExceedsCapacity(w) ==
    w * CAPACITY_RATIO_DEN > total_weight_all * CAPACITY_RATIO_NUM

Included(chromosome) == {k \in DOMAIN chromosome : chromosome[k]}

(***************************************************************************)
(* evaluate_and_repair                                                     *)
(***************************************************************************)
\* step 1: weight and fitness summed over the included items
Summed(x) ==
    [x EXCEPT !.total_weight =
                  SumOver([k \in Genes |-> items[k].weight], Included(x.chromosome)),
              !.fitness =
                  [o \in DOMAIN x.fitness |->
                      SumOver([k \in Genes |-> items[k].profits[o]],
                              Included(x.chromosome))]]

\* the comparator of the sort: ratio_a < ratio_b, where ratio is the sum over
\* the objectives of profit/weight = (sum of the profits) / weight
AggregateProfit(a) == SumOver(items[a].profits, Objectives)

\* the comparator reversed: best ratio first
RatioGreater(a, b) ==
    AggregateProfit(a) * items[b].weight > AggregateProfit(b) * items[a].weight

RatioLess(a, b) ==
    AggregateProfit(a) * items[b].weight < AggregateProfit(b) * items[a].weight

Perms(S) ==
    {f \in [1..Cardinality(S) -> S] : \A a, b \in DOMAIN f : a # b => f[a] # f[b]}

\* what std::sort may leave in items_in_bag: any arrangement in which no
\* element compares less than an earlier one; the order of elements that
\* compare equivalent is unspecified
SortOutcomes(bag) ==
    {s \in Perms(bag) : \A a, b \in DOMAIN s : a < b => ~RatioLess(s[b], s[a])}

\* the removal without the profit bookkeeping
RemoveItemKeepFitness(x, id) ==
    [x EXCEPT !.chromosome[id] = FALSE,
              !.total_weight = @ - items[id].weight]

\* body of the removal loop for one id
RemoveItem(x, id) ==
    [x EXCEPT !.chromosome[id] = FALSE,
              !.total_weight = @ - items[id].weight,
              !.fitness = [o \in DOMAIN @ |-> @[o] - items[id].profits[o]]]

\* an "if" in place of the loop: only the worst item is removed
RemoveLoopSingle(x, order, k) ==
    IF k > Len(order) \/ ~ExceedsCapacity(x.total_weight) THEN x
    ELSE RemoveItem(x, order[k])

RECURSIVE RemoveLoop(_, _, _)
\* for (int id : items_in_bag) { if (total_weight <= max_capacity) break; ... }
RemoveLoop(x, order, k) ==
    IF k > Len(order) \/ ~ExceedsCapacity(x.total_weight) THEN x
    ELSE RemoveLoop(RemoveItem(x, order[k]), order, k + 1)

\* the flag left as the constructor set it
LeaveValidity(x) == x

MarkValid(x) == [x EXCEPT !.valid = TRUE]

\* the results evaluate_and_repair may leave in its argument
evaluate_and_repair(x) ==
    LET s == Summed(x) IN
    IF ExceedsCapacity(s.total_weight)
    THEN {MarkValid(RemoveLoop(s, order, 1)) : order \in SortOutcomes(Included(s.chromosome))}
    ELSE {MarkValid(s)}

(***************************************************************************)
(* init_population                                                         *)
(***************************************************************************)
Chromosomes(n) == [1..n -> BOOLEAN]

WithChromosome(c) == [Individual(Len(c)) EXCEPT !.chromosome = c]

\* one iteration of init_population: a coin per gene, then evaluate_and_repair
RandomIndividuals ==
    UNION {evaluate_and_repair(WithChromosome(c)) : c \in Chromosomes(num_items)}

init_population == [1..pop_size -> RandomIndividuals]

(***************************************************************************)
(* Selection                                                               *)
(***************************************************************************)
\* binary tournament on the draws best_idx, challenger (slots, 1-based)
tournament_selection(objective_idx, best_idx, challenger) ==
    IF population[challenger].fitness[objective_idx + 1]
           > population[best_idx].fitness[objective_idx + 1]
    THEN challenger
    ELSE best_idx

total_fit(objective_idx) ==
    SumOver([k \in 1..Len(population) |-> population[k].fitness[objective_idx + 1]],
            1..Len(population))

RECURSIVE RouletteWalk(_, _, _, _)
\* for (ind : population) { current += fitness; if (current >= spin) return ind; }
\* return population.back();
RouletteWalk(objective_idx, spin, k, current) ==
    IF k > Len(population) THEN Len(population)
    ELSE LET c == current + population[k].fitness[objective_idx + 1] IN
         IF c >= spin THEN k
         ELSE RouletteWalk(objective_idx, spin, k + 1, c)

roulette_selection(objective_idx, spin) == RouletteWalk(objective_idx, spin, 1, 0)

\* spin is a real drawn from [0, total_fit]; the fitness values are integers, so
\* a real spin in (s-1, s] stops the walk where the integer s does
Spins(objective_idx) == 0..total_fit(objective_idx)

RoulettePicks(objective_idx) ==
    {roulette_selection(objective_idx, spin) : spin \in Spins(objective_idx)}

TournamentPicks(objective_idx) ==
    {tournament_selection(objective_idx, b, c) : b \in 1..pop_size, c \in 1..pop_size}

\* if (selection_method == 1) roulette else tournament
SelectionPicks(objective_idx) ==
    IF selection_method = 1 THEN RoulettePicks(objective_idx)
    ELSE TournamentPicks(objective_idx)

(***************************************************************************)
(* Crossover and mutation                                                  *)
(***************************************************************************)
\* "i <= point" in place of "i < point"
crossoverOffByOne(pa, pb, pt) ==
    <<[Individual(num_items) EXCEPT !.chromosome =
           [j \in Genes |-> IF j <= pt + 1 THEN pa.chromosome[j] ELSE pb.chromosome[j]]],
      [Individual(num_items) EXCEPT !.chromosome =
           [j \in Genes |-> IF j <= pt + 1 THEN pb.chromosome[j] ELSE pa.chromosome[j]]]>>

\* gene j (1-based) is code index j-1, so "i < point" is "j <= point"
crossover(pa, pb, pt) ==
    <<[Individual(num_items) EXCEPT !.chromosome =
           [j \in Genes |-> IF j <= pt THEN pa.chromosome[j] ELSE pb.chromosome[j]]],
      [Individual(num_items) EXCEPT !.chromosome =
           [j \in Genes |-> IF j <= pt THEN pb.chromosome[j] ELSE pa.chromosome[j]]]>>

\* uniform_int_distribution<>(1, num_items - 1) needs 1 <= num_items - 1
DrawDefined == num_items >= 2

\* the values the draw can return.  With num_items <= 1 the distribution is
\* built with a > b, which is undefined: a build without library assertions
\* returns some int, and every int acts in the copy loop as 0 (no gene index
\* below it) or as num_items (every gene index below it)
CrossoverPoints ==
    IF DrawDefined THEN 1..(num_items - 1) ELSE {0, num_items}

\* flips: the genes whose draw fell below mutation_rate
mutate(x, flips) ==
    [x EXCEPT !.chromosome = [j \in DOMAIN @ |-> IF j \in flips THEN ~@[j] ELSE @[j]]]

(***************************************************************************)
(* run                                                                     *)
(***************************************************************************)
subpop_size == pop_size \div SUBPOP_COUNT

pairs_needed == subpop_size \div 2

\* mutate + evaluate_and_repair of one child
MutatedRepaired(child) ==
    UNION {evaluate_and_repair(mutate(child, flips)) : flips \in SUBSET Genes}

\* the two children one loop iteration may append, for parents pa, pb
PairOutcomes(pa, pb) ==
    UNION {MutatedRepaired(crossover(pa, pb, pt)[1])
               \X MutatedRepaired(crossover(pa, pb, pt)[2]) : pt \in CrossoverPoints}

\* p1 = selection(obj); p2 = selection(obj): copies of the picked slots
Parents(objective_idx) == {population[k] : k \in SelectionPicks(objective_idx)}

\* the pairs of children an iteration of the pair loop may append
GenerationPairOutcomes ==
    UNION {PairOutcomes(pa, pb) : pa \in Parents(obj), pb \in Parents(obj)}

\* padding with population.back() in place of population[0]
PaddedWithLast(buffer) ==
    IF Len(buffer) < pop_size
    THEN buffer \o [k \in 1..(pop_size - Len(buffer)) |-> population[Len(population)]]
    ELSE buffer

\* while (new_pop.size() < pop_size) new_pop.push_back(population[0]);
Padded(buffer) ==
    IF Len(buffer) < pop_size
    THEN buffer \o [k \in 1..(pop_size - Len(buffer)) |-> population[1]]
    ELSE buffer

LoopsDone == pairs_needed <= 0 \/ obj >= NUM_OBJECTIVES

(***************************************************************************)
(* Instances                                                               *)
(***************************************************************************)
ProfitVectors == {<<1, 1, 1>>, <<2, 2, 2>>, <<1, 2, 3>>}

ItemTypes == {Item(w, ps) : w \in 1..MaxWeight, ps \in ProfitVectors}

InstancesOfSize(n) == [1..n -> ItemTypes]

\* the 4-item scenario: weights 10,20,30,40, profits 5,8,9,40 on objective 0
ScenarioItems ==
    <<Item(10, <<5, 0, 0>>), Item(20, <<8, 0, 0>>),
      Item(30, <<9, 0, 0>>), Item(40, <<40, 0, 0>>)>>

\* n items of weight 1, item k with profit k on every objective
UniformItems(n) == [k \in 1..n |-> Item(1, <<k, k, k>>)]

\* instances of the runs: one item; two items, the lighter one with the
\* worse aggregate ratio
RunInstances ==
    {<<Item(1, <<1, 2, 1>>)>>,
     <<Item(1, <<2, 1, 1>>), Item(2, <<3, 4, 5>>)>>}

\* 1 = roulette, 2 = tournament (main); the constructor takes any int
SelectionMethods == {1, 2, 3}

Idle == Individual(0)

(***************************************************************************)
(* Spec: one run of the solver                                             *)
(***************************************************************************)
Init ==
    /\ items \in RunInstances
    /\ pop_size \in 0..MaxPopSize
    /\ selection_method \in SelectionMethods
    /\ generations \in {0, MaxGenerations}
    /\ population = <<>> /\ new_pop = <<>>
    /\ pc = "constructed"
    /\ g = 0 /\ obj = 0 /\ i = 0 /\ sel_obj = 0
    /\ arg = Idle /\ ind = Idle
    /\ p1 = Idle /\ p2 = Idle /\ children = <<Idle, Idle>> /\ point = 0

\* run(): init_population(), then the generation loop is entered or skipped
InitPopulation ==
    /\ pc = "constructed"
    /\ population' \in init_population
    /\ pc' = IF 0 < generations THEN "generation" ELSE "terminal"
    /\ UNCHANGED <<items, pop_size, selection_method, generations, new_pop,
                   g, obj, i, sel_obj, arg, ind, p1, p2, children, point>>

\* one iteration of the pair loop: select, crossover, mutate, repair, append
GenerationPair ==
    /\ pc = "generation"
    /\ ~LoopsDone
    /\ \E kids \in GenerationPairOutcomes :
           new_pop' = new_pop \o <<kids[1], kids[2]>>
    /\ sel_obj' = obj
    /\ IF i + 1 < pairs_needed
       THEN i' = i + 1 /\ obj' = obj
       ELSE i' = 0 /\ obj' = obj + 1
    /\ UNCHANGED <<items, pop_size, selection_method, generations, population,
                   pc, g, arg, ind, p1, p2, children, point>>

\* the pair loop on an instance where the cut-point draw is undefined, in a
\* build whose library asserts the distribution's precondition
GenerationPairAbort ==
    /\ pc = "generation"
    /\ ~LoopsDone
    /\ ~DrawDefined
    /\ pc' = "aborted"
    /\ UNCHANGED <<items, pop_size, selection_method, generations, population,
                   new_pop, g, obj, i, sel_obj, arg, ind, p1, p2, children, point>>

\* padding, population = new_pop, ++g
EndGeneration ==
    /\ pc = "generation"
    /\ LoopsDone
    /\ population' = Padded(new_pop)
    /\ new_pop' = <<>>
    /\ g' = g + 1
    /\ obj' = 0 /\ i' = 0
    /\ pc' = IF g + 1 < generations THEN "generation" ELSE "terminal"
    /\ UNCHANGED <<items, pop_size, selection_method, generations, sel_obj,
                   arg, ind, p1, p2, children, point>>

Next ==
    \/ InitPopulation
    \/ GenerationPair
    \/ GenerationPairAbort
    \/ EndGeneration

Spec == Init /\ [][Next]_vars

(***************************************************************************)
(* SpecRepair: evaluate_and_repair applied to an arbitrary inclusion       *)
(* vector of an arbitrary instance                                         *)
(***************************************************************************)
InitRepair ==
    /\ items \in (UNION {InstancesOfSize(n) : n \in 1..MaxItems}) \cup {ScenarioItems}
    /\ arg \in {WithChromosome(c) : c \in Chromosomes(Len(items))}
    /\ ind = arg
    /\ pc = "repair"
    /\ pop_size = 0 /\ selection_method = 0 /\ generations = 0
    /\ population = <<>> /\ new_pop = <<>>
    /\ g = 0 /\ obj = 0 /\ i = 0 /\ sel_obj = 0
    /\ p1 = Idle /\ p2 = Idle /\ children = <<Idle, Idle>> /\ point = 0

Repair ==
    /\ pc = "repair"
    /\ ind' \in evaluate_and_repair(ind)
    /\ pc' = "repaired"
    /\ UNCHANGED <<items, pop_size, selection_method, generations, population,
                   new_pop, g, obj, i, sel_obj, arg, p1, p2, children, point>>

NextRepair == Repair

SpecRepair == InitRepair /\ [][NextRepair]_vars

(***************************************************************************)
(* SpecCrossover: crossover applied to two members of a population         *)
(***************************************************************************)
InitCrossover ==
    /\ items \in {UniformItems(n) : n \in 1..(MaxItems + 1)}
    /\ p1 \in RandomIndividuals
    /\ p2 \in RandomIndividuals
    /\ pc = "crossover"
    /\ pop_size = 0 /\ selection_method = 0 /\ generations = 0
    /\ population = <<>> /\ new_pop = <<>>
    /\ g = 0 /\ obj = 0 /\ i = 0 /\ sel_obj = 0
    /\ arg = Idle /\ ind = Idle
    /\ children = <<Idle, Idle>> /\ point = 0

Crossover ==
    /\ pc = "crossover"
    /\ point' \in CrossoverPoints
    /\ children' = crossover(p1, p2, point')
    /\ pc' = "crossed"
    /\ UNCHANGED <<items, pop_size, selection_method, generations, population,
                   new_pop, g, obj, i, sel_obj, arg, ind, p1, p2>>

\* the undefined draw in a build whose library asserts the precondition
CrossoverAbort ==
    /\ pc = "crossover"
    /\ ~DrawDefined
    /\ pc' = "aborted"
    /\ UNCHANGED <<items, pop_size, selection_method, generations, population,
                   new_pop, g, obj, i, sel_obj, arg, ind, p1, p2, children, point>>

NextCrossover ==
    \/ Crossover
    \/ CrossoverAbort

SpecCrossover == InitCrossover /\ [][NextCrossover]_vars

(***************************************************************************)
(* Properties                                                              *)
(***************************************************************************)
\* the Solutions held by the run: the population and the buffer
Held == {population[k] : k \in DOMAIN population} \cup {new_pop[k] : k \in DOMAIN new_pop}

WeightOf(S) == SumOver([k \in Genes |-> items[k].weight], S)

ProfitOf(S, o) == SumOver([k \in Genes |-> items[k].profits[o]], S)

\* w <= capacity, capacity being half the total weight of the items
WithinHalf(w) == 2 * w <= WeightOf(Genes)

\* C1 (capacity invariant): every Solution of the population and of the
\* next-generation buffer, and every result of evaluate_and_repair, is valid
\* with total_weight <= max_capacity.
C1_CapacityInvariant ==
    /\ \A x \in Held : x.valid /\ WithinHalf(x.total_weight)
    /\ pc = "repaired" => ind.valid /\ WithinHalf(ind.total_weight)

\* a population member that came out of the removal loop with both items gone
C1_Witness ==
    /\ pc = "generation" /\ g = 1 /\ num_items = 2
    /\ \E k \in DOMAIN new_pop : Included(new_pop[k].chromosome) = {}
    /\ \E k \in DOMAIN population : Included(population[k].chromosome) # {}

Consistent(x) ==
    /\ x.total_weight = WeightOf(Included(x.chromosome))
    /\ \A o \in Objectives : x.fitness[o] = ProfitOf(Included(x.chromosome), o)

C3_SelectionReadsValid ==
    pc = "generation" => \A x \in Held : x.valid

\* selection reading a population made of children and a padding copy
C3_Witness ==
    /\ pc = "generation" /\ g = 1 /\ ~LoopsDone
    /\ pop_size = 7 /\ Len(population) = 7

\* C4: with a zero fitness sum on the designated objective, every slot of the
\* population is a possible result of roulette_selection.
C4_RouletteFallback ==
    (/\ pc = "generation" /\ ~LoopsDone
     /\ num_items >= 2
     /\ selection_method = 1
     /\ SumOver([k \in DOMAIN population |-> population[k].fitness[obj + 1]],
                DOMAIN population) = 0)
        => RoulettePicks(obj) = 1..pop_size

\* C5: no run is performed with a selection-policy value other than 1 and 2.
C5_InvalidPolicyRejected ==
    pc # "constructed" => selection_method \in {1, 2}

\* C6: with at most one item crossover is skipped: it returns, and what it
\* returns are the two parents.
C6_CrossoverSkipped ==
    (pc \in {"crossed", "aborted"} /\ num_items <= 1)
        => (pc = "crossed" /\ children = <<p1, p2>>)

\* sum over the objectives of the profits of item a
AggregateOf(a) == SumOver([o \in Objectives |-> ProfitOf({a}, o)], Objectives)

\* aggregate ratio of item a below that of item b
AggLess(a, b) == AggregateOf(a) * WeightOf({b}) < AggregateOf(b) * WeightOf({a})

\* the included items ascending by aggregate ratio, equal ratios by index
ByRatioThenIndex(bag) ==
    CHOOSE s \in Perms(bag) :
        \A a, b \in DOMAIN s :
            a < b => (AggLess(s[a], s[b]) \/ (~AggLess(s[b], s[a]) /\ s[a] < s[b]))

\* the arrangements of the included items ascending by aggregate ratio
ByRatio(bag) ==
    {s \in Perms(bag) : \A a, b \in DOMAIN s : a < b => ~AggLess(s[b], s[a])}

RECURSIVE ShortestPrefix(_, _, _)
\* the items of the shortest prefix of order whose removal from weight w
\* leaves it within capacity
ShortestPrefix(order, k, w) ==
    IF k > Len(order) \/ WithinHalf(w) THEN {}
    ELSE {order[k]} \cup ShortestPrefix(order, k + 1, w - WeightOf({order[k]}))

RepairedFrom(order) ==
    /\ Included(ind.chromosome) \subseteq Included(arg.chromosome)
    /\ Included(arg.chromosome) \ Included(ind.chromosome)
           = ShortestPrefix(order, 1, WeightOf(Included(arg.chromosome)))

ScenarioAllIncluded ==
    pc = "repaired" /\ items = ScenarioItems /\ Included(arg.chromosome) = 1..4

C8_Conserved ==
    (pc = "crossed" /\ num_items >= 2) =>
        /\ point \in 1..(num_items - 1)
        /\ \A j \in 0..(num_items - 1) :
               /\ j < point =>
                      /\ children[1].chromosome[j + 1] = p1.chromosome[j + 1]
                      /\ children[2].chromosome[j + 1] = p2.chromosome[j + 1]
               /\ j >= point =>
                      /\ children[1].chromosome[j + 1] = p2.chromosome[j + 1]
                      /\ children[2].chromosome[j + 1] = p1.chromosome[j + 1]
        /\ ~children[1].valid /\ ~children[2].valid

C8_GeneConservation ==
    /\ []C8_Conserved
    /\ [][p1' = p1 /\ p2' = p2]_vars

\* a crossover whose children differ from both parents
C8_Witness ==
    /\ pc = "crossed" /\ num_items >= 3
    /\ p1.valid /\ p2.valid
    /\ children[1].chromosome \notin {p1.chromosome, p2.chromosome}
    /\ children[2].chromosome \notin {p1.chromosome, p2.chromosome}

\* children per objective and per generation
ChildrenPerObjective == 2 * ((pop_size \div 3) \div 2)

C10_Sizes ==
    /\ pc # "constructed" => Len(population) = pop_size
    /\ pc = "generation" =>
           /\ Len(new_pop) <= 3 * ChildrenPerObjective
           /\ ChildrenPerObjective > 0 =>
                  Len(new_pop) = obj * ChildrenPerObjective + 2 * i

\* a step that appends to the buffer appends two children whose parents were
\* selected on the objective of the block of the buffer they land in
C10_Append ==
    new_pop' # new_pop /\ new_pop' # <<>> =>
        /\ Len(new_pop') = Len(new_pop) + 2
        /\ sel_obj' = Len(new_pop) \div ChildrenPerObjective

\* a step that replaces the population installs the whole buffer followed by
\* copies of slot 0 of the outgoing population
C10_Replace ==
    (pc = "generation" /\ g' = g + 1) =>
        /\ Len(new_pop) = 3 * ChildrenPerObjective
        /\ Len(population') = pop_size
        /\ \A k \in 1..pop_size :
               population'[k] = IF k <= Len(new_pop) THEN new_pop[k] ELSE population[1]
        /\ (Len(new_pop) < pop_size) <=> (pop_size % 6 # 0)

\* C10 (fixed size and padding): the population always holds pop_size
\* Solutions; a generation's population is 2 * ((pop_size / 3) / 2) children
\* per objective, objective by objective, then a shortfall, non-empty exactly
\* when 6 does not divide pop_size, of copies of slot 0 of the outgoing one.
C10_SizeAndPadding ==
    /\ []C10_Sizes
    /\ [][C10_Append /\ C10_Replace]_vars

\* a second generation's population: six children and a padding copy that
\* differs from the last child
C10_Witness ==
    /\ pc = "terminal" /\ g = 2 /\ pop_size = 7
    /\ population[7] # population[6]

====
